---- MODULE Spec2Model ----
(***************************************************************************)
(* Model of the expense-share settlement engine: the split strategies      *)
(* (app/services/split_strategies), the expense service                    *)
(* (app/services/expense_service.py), the balance service                  *)
(* (app/services/balance_service.py) and the cache it uses                 *)
(* (app/services/cache_service.py).                                        *)
(*                                                                         *)
(* Money is an integer number of thousandths (0.001), so the cent of       *)
(* round_decimal is 10 units and inputs with three fractional digits are   *)
(* representable.  Percentages are integers counting 0.005 %, so 100 % is  *)
(* 20000 units and the 0.01 tolerance is 2 units.                          *)
(***************************************************************************)
EXTENDS Integers, Sequences, FiniteSets, TLC

VARIABLES
    split_type,        \* SplitSpec: the strategy get_split_strategy selects
    total_amount,      \* SplitSpec: total_amount argument of calculate_splits
    participant_data,  \* SplitSpec: participant_data argument (list of dicts)
    splits,            \* SplitSpec: the returned list of ParticipantSplit
    raised,            \* SplitSpec: "pending", "none" or the exception raised
    expenses,          \* the expenses table with its expense_participants rows
    cache,             \* the Redis entries balance:{user_id}
    redis_up,          \* whether the Redis backend answers
    post_pc,           \* IdempotencySpec: where each POST /expenses request is
    post_response,     \* IdempotencySpec: the response of each POST request
    user_rows,         \* the rows of the users table: email and username
    read_pc,           \* where each concurrent get_user_balances call is
    read_balances      \* the balances_dict of each concurrent call

vars == <<split_type, total_amount, participant_data, splits, raised,
          expenses, cache, redis_up, post_pc, post_response,
          user_rows, read_pc, read_balances>>

splitVars == <<split_type, total_amount, participant_data, splits, raised>>
dbVars == <<expenses, cache, redis_up>>
postVars == <<post_pc, post_response>>
userVars == <<user_rows>>
readVars == <<read_pc, read_balances>>

----------------------------------------------------------------------------
(* Bounds of the model *)

\* longest participant list handed to the PERCENTAGE and MANUAL strategies
MaxSplitParticipants == 3
\* longest participant list handed to the EQUAL strategy
MaxEqualParticipants == 10

----------------------------------------------------------------------------
(* Decimal helpers *)

\* Decimal(10) ** -2 of round_decimal, in thousandths
quantize_value == 10
\* Decimal('0.01'), the tolerance of the amount checks, in thousandths
AmountTolerance == 10
\* Decimal("100") of the percentage strategy, in units of 0.005 %
Hundred == 20000
\* Decimal("0.01"), the tolerance of the percentage sum, in units of 0.005 %
PercentageTolerance == 2

Abs(x) == IF x < 0 THEN -x ELSE x

\* rounding that takes ties towards plus infinity instead
RoundHalfCeiling(n, d) ==
    IF 2 * (n % d) >= d THEN (n \div d) + 1 ELSE n \div d

\* the integer nearest to n/d (d > 0), ties away from zero (ROUND_HALF_UP)
RoundHalfUp(n, d) ==
    LET a == Abs(n)
        q == a \div d
        r == a % d
        m == IF 2 * r >= d THEN q + 1 ELSE q
    IN  IF n < 0 THEN -m ELSE m

\* round_decimal cutting the digits after the second off
round_decimal_down(n, d) == quantize_value * (n \div (d * quantize_value))

\* round_decimal applied to the quotient n/d: a multiple of 0.01
round_decimal(n, d) == quantize_value * RoundHalfUp(n, d * quantize_value)

RECURSIVE sum_decimals(_)
sum_decimals(values) ==
    IF values = <<>> THEN 0
    ELSE Head(values) + sum_decimals(Tail(values))

----------------------------------------------------------------------------
(* Optional dict entries of a participant: a Decimal, None, or no key *)

Some(v) == [tag |-> "value", v |-> v]
None == [tag |-> "None", v |-> 0]
Missing == [tag |-> "missing", v |-> 0]

IsValue(x) == x.tag = "value"

ParticipantSplit(uid, owed) == [user_id |-> uid, amount_owed |-> owed]

Returned(s) == [exc |-> "none", splits |-> s]
Raise(e) == [exc |-> e, splits |-> <<>>]

\* the result of a loop that raises at the first failing element:
\* errs[i] is "none" or the exception element i raises
FirstRaised(errs) ==
    IF \E i \in DOMAIN errs : errs[i] # "none"
    THEN errs[CHOOSE i \in DOMAIN errs :
                /\ errs[i] # "none"
                /\ \A j \in DOMAIN errs : j < i => errs[j] = "none"]
    ELSE "none"

\* a strategy that leaves the rounding difference unassigned
AdjustNothing(s, difference) == s

\* splits[-1].amount_owed += difference
AdjustLast(s, difference) ==
    IF difference # 0
    THEN [s EXCEPT ![Len(s)].amount_owed = @ + difference]
    ELSE s

\* a participant dict as model_dump() of a ParticipantInput produces it
ParticipantDict(uid, paid, owed, pct) ==
    [user_id |-> uid, amount_paid |-> paid, amount_owed |-> owed,
     percentage |-> pct]

----------------------------------------------------------------------------
(* EqualSplitStrategy.calculate_splits *)

\* an equal split that gives every participant the rounded base amount
EqualSplitBaseOnly(total, pdata) ==
    Returned([i \in 1..Len(pdata) |->
                 ParticipantSplit(pdata[i].user_id,
                                  round_decimal(total, Len(pdata)))])

EqualSplit(total, pdata) ==
    LET n == Len(pdata)
        rounded_base == round_decimal(total, n)
        base_splits == [i \in 1..n |->
                           ParticipantSplit(pdata[i].user_id, rounded_base)]
        total_assigned ==
            sum_decimals([i \in 1..n |-> base_splits[i].amount_owed])
        difference == total - total_assigned
    IN  IF n = 0 THEN Returned(<<>>)
        ELSE Returned(AdjustLast(base_splits, difference))

----------------------------------------------------------------------------
(* PercentageSplitStrategy.calculate_splits *)

\* Decimal(str(p.get("percentage", 0) or 0))
PercentageOrZero(p) == IF IsValue(p.percentage) THEN p.percentage.v ELSE 0

\* a range loop that checks the lower limit only
PercentageLowerLimitError(p) ==
    CASE p.percentage.tag = "None" -> "InvalidOperation"
      [] p.percentage.tag = "missing" -> "none"
      [] OTHER -> IF p.percentage.v < 0 THEN "ValidationError" ELSE "none"

\* one pass of the range loop: Decimal(str(participant.get("percentage", 0)))
PercentageRangeError(p) ==
    CASE p.percentage.tag = "None" -> "InvalidOperation"
      [] p.percentage.tag = "missing" -> "none"
      [] OTHER -> IF p.percentage.v < 0 \/ p.percentage.v > Hundred
                  THEN "ValidationError" ELSE "none"

\* one pass of the amount loop: participant["percentage"]
PercentageKeyError(p) ==
    IF p.percentage.tag = "missing" THEN "KeyError" ELSE "none"

PercentageSplit(total, pdata) ==
    LET n == Len(pdata)
        total_percentage ==
            sum_decimals([i \in 1..n |-> PercentageOrZero(pdata[i])])
        range_error ==
            FirstRaised([i \in 1..n |-> PercentageRangeError(pdata[i])])
        key_error ==
            FirstRaised([i \in 1..n |-> PercentageKeyError(pdata[i])])
        base_splits == [i \in 1..n |->
            ParticipantSplit(pdata[i].user_id,
                round_decimal(total * pdata[i].percentage.v, Hundred))]
        total_assigned ==
            sum_decimals([i \in 1..n |-> base_splits[i].amount_owed])
        difference == total - total_assigned
    IN  IF n = 0 THEN Returned(<<>>)
        ELSE IF Abs(total_percentage - Hundred) > PercentageTolerance
             THEN Raise("ValidationError")
        ELSE IF range_error # "none" THEN Raise(range_error)
        ELSE IF key_error # "none" THEN Raise(key_error)
        ELSE Returned(AdjustLast(base_splits, difference))

----------------------------------------------------------------------------
(* ManualSplitStrategy.calculate_splits *)

\* Decimal(str(participant.get('amount_owed', 0)))
ManualAmount(p) == IF IsValue(p.amount_owed) THEN p.amount_owed.v ELSE 0

\* one pass of the loop that builds the splits
ManualLoopError(p) ==
    CASE p.amount_owed.tag = "None" -> "InvalidOperation"
      [] p.amount_owed.tag = "missing" -> "none"
      [] OTHER -> IF p.amount_owed.v < 0 THEN "ValidationError" ELSE "none"

\* a manual split that rejects a difference of exactly 0.01
ManualSplitStrict(total, pdata) ==
    LET n == Len(pdata)
        loop_error == FirstRaised([i \in 1..n |-> ManualLoopError(pdata[i])])
        manual_splits == [i \in 1..n |->
            ParticipantSplit(pdata[i].user_id, ManualAmount(pdata[i]))]
        total_assigned ==
            sum_decimals([i \in 1..n |-> manual_splits[i].amount_owed])
        difference == Abs(total - total_assigned)
    IN  IF n = 0 THEN Returned(<<>>)
        ELSE IF loop_error # "none" THEN Raise(loop_error)
        ELSE IF difference >= AmountTolerance THEN Raise("ValidationError")
        ELSE Returned(manual_splits)

ManualSplit(total, pdata) ==
    LET n == Len(pdata)
        loop_error == FirstRaised([i \in 1..n |-> ManualLoopError(pdata[i])])
        manual_splits == [i \in 1..n |->
            ParticipantSplit(pdata[i].user_id, ManualAmount(pdata[i]))]
        total_assigned ==
            sum_decimals([i \in 1..n |-> manual_splits[i].amount_owed])
        difference == Abs(total - total_assigned)
    IN  IF n = 0 THEN Returned(<<>>)
        ELSE IF loop_error # "none" THEN Raise(loop_error)
        ELSE IF difference > AmountTolerance THEN Raise("ValidationError")
        ELSE Returned(manual_splits)

\* get_split_strategy(split_type).calculate_splits(total, pdata)
calculate_splits(kind, total, pdata) ==
    CASE kind = "EQUAL" -> EqualSplit(total, pdata)
      [] kind = "PERCENTAGE" -> PercentageSplit(total, pdata)
      [] kind = "MANUAL" -> ManualSplit(total, pdata)

----------------------------------------------------------------------------
(* Persisted data.  expenses maps the id of every row of the expenses      *)
(* table to its creator, its total and its expense_participants rows       *)
(* (user_id, amount_paid, amount_owed).  Columns that no modelled          *)
(* operation reads (description, currency, dates, group_name, split_type,  *)
(* percentage) are left out.  Requests carry whole cents, which the        *)
(* Numeric(12, 2) columns store as given.                                  *)

\* number of registered users
NumUsers == 4
\* capacity of the expenses table in the model
MaxExpenses == 2

Users == 1..NumUsers

NoExpenses == <<>>
NoCache == <<>>
ExpenseIds == 1..MaxExpenses

\* a user id that UserRepository.get_by_id does not find
\* the rows of the users table behind Users: user u registered with email u
\* and username u
LedgerAccounts == {[email |-> u, username |-> u] : u \in Users}

UnknownUser == CHOOSE u \in 0..NumUsers : u \notin Users

Remove(f, k) == [x \in DOMAIN f \ {k} |-> f[x]]

Range(f) == {f[x] : x \in DOMAIN f}

\* ExpenseService.validate_participants_exist
validate_participants_exist(pinputs) ==
    IF \E i \in 1..Len(pinputs) : pinputs[i].user_id \notin Users
    THEN "ValidationError" ELSE "none"

\* ExpenseService.validate_amounts
validate_amounts(total, pinputs, calculated_splits) ==
    LET total_paid ==
            sum_decimals([i \in 1..Len(pinputs) |-> pinputs[i].amount_paid])
        total_owed ==
            sum_decimals([i \in 1..Len(calculated_splits) |->
                             calculated_splits[i].amount_owed])
    IN  IF Abs(total_paid - total) > AmountTolerance THEN "ValidationError"
        ELSE IF /\ calculated_splits # <<>>
                /\ Abs(total_owed - total) > AmountTolerance
             THEN "ValidationError"
        ELSE "none"

\* the ExpenseParticipant objects built from zip(participants, splits)
ParticipantRows(pinputs, calculated_splits) ==
    LET n == IF Len(pinputs) < Len(calculated_splits)
             THEN Len(pinputs) ELSE Len(calculated_splits)
    IN  [i \in 1..n |->
            [user_id |-> pinputs[i].user_id,
             amount_paid |-> pinputs[i].amount_paid,
             amount_owed |-> calculated_splits[i].amount_owed]]

\* the check constraints alone, without uq_expense_user
ParticipantChecksHold(rows) ==
    \A i \in 1..Len(rows) :
        /\ rows[i].amount_paid >= 0
        /\ rows[i].amount_owed >= 0
        /\ rows[i].amount_paid > 0 \/ rows[i].amount_owed > 0

\* the constraints of expense_participants that the flush enforces
ParticipantConstraintsHold(rows) ==
    /\ \A i, j \in 1..Len(rows) :
          i # j => rows[i].user_id # rows[j].user_id
    /\ \A i \in 1..Len(rows) :
          /\ rows[i].amount_paid >= 0
          /\ rows[i].amount_owed >= 0
          /\ rows[i].amount_paid > 0 \/ rows[i].amount_owed > 0

\* the rows as stored: each inserted row with the number of its copies (the
\* primary key that tells equal rows apart is left out)
StoredParticipants(rows) ==
    [r \in {rows[i] : i \in 1..Len(rows)} |->
        Cardinality({i \in 1..Len(rows) : rows[i] = r})]

\* [p.user_id for p in expense.participants]
ParticipantIds(expense) == {r.user_id : r \in DOMAIN expense.participants}

\* next((p for p in expense.participants if p.user_id == user_id), None)
ParticipantOf(expense, user_id) ==
    CHOOSE r \in DOMAIN expense.participants : r.user_id = user_id

\* the part create_expense and update_expense share: validation, split
\* calculation and the participant rows handed to create_batch
PrepareParticipants(req) ==
    LET exists == validate_participants_exist(req.participants)
        r == calculate_splits(req.split_type, req.total_amount,
                              req.participants)
        amounts == validate_amounts(req.total_amount, req.participants,
                                    r.splits)
        rows == ParticipantRows(req.participants, r.splits)
    IN  IF exists # "none" THEN [exc |-> exists, rows |-> <<>>]
        ELSE IF r.exc # "none" THEN [exc |-> r.exc, rows |-> <<>>]
        ELSE IF amounts # "none" THEN [exc |-> amounts, rows |-> <<>>]
        ELSE IF ~ParticipantConstraintsHold(rows)
             THEN [exc |-> "IntegrityError", rows |-> <<>>]
        ELSE [exc |-> "none", rows |-> rows]

----------------------------------------------------------------------------
(* Requests of the expense service *)

ExpenseRequest(kind, total, pinputs) ==
    [split_type |-> kind, total_amount |-> total, participants |-> pinputs]

\* the users of a non-empty set in ascending order
RECURSIVE Ascending(_)
Ascending(S) ==
    IF S = {} THEN <<>>
    ELSE LET m == CHOOSE x \in S : \A y \in S : x <= y
         IN  <<m>> \o Ascending(S \ {m})

\* the amount a participant of a MANUAL request paid or owes: 0.01
RequestShare == quantize_value
\* total_amount of the EQUAL and PERCENTAGE requests: 0.02
RequestTotal == 2 * RequestShare

\* the user who creates expenses
LedgerCreator == CHOOSE u \in Users : \A v \in Users : u <= v

\* the groups of users that share a MANUAL or EQUAL expense: the first k
\* users, for every k
UserGroups == {1..k : k \in Users}

\* total_amount of a MANUAL request: what its participants paid (0.01 when
\* nobody paid)
ManualTotal(S, paid) ==
    LET payers == {u \in S : paid[u] > 0}
    IN  IF payers = {} THEN RequestShare
        ELSE RequestShare * Cardinality(payers)

\* MANUAL requests: every group of users, each of whom either paid
\* 0.01 and owes nothing or paid nothing and owes 0.01
ManualRequests ==
    UNION {{ExpenseRequest("MANUAL", ManualTotal(S, paid),
               [i \in 1..Cardinality(S) |->
                   ParticipantDict(Ascending(S)[i], paid[Ascending(S)[i]],
                       Some(RequestShare - paid[Ascending(S)[i]]), None)]) :
               paid \in [S -> {0, RequestShare}]} :
           S \in UserGroups}

\* EQUAL requests: every group of users, one of whom pays the total;
\* in ascending or descending order of user id
EqualRequests ==
    UNION {{ExpenseRequest("EQUAL", RequestTotal,
               [i \in 1..Cardinality(S) |->
                   ParticipantDict(order[i],
                       IF order[i] = payer THEN RequestTotal ELSE 0,
                       None, None)]) :
               payer \in S,
               order \in {Ascending(S),
                          [i \in 1..Cardinality(S) |->
                              Ascending(S)[Cardinality(S) + 1 - i]]}} :
           S \in UserGroups}

\* PERCENTAGE requests: two participants at 50 %, the first of whom paid the
\* total (the same user twice included)
PercentageRequests ==
    {ExpenseRequest("PERCENTAGE", RequestTotal,
        <<ParticipantDict(a, RequestTotal, None, Some(Hundred \div 2)),
          ParticipantDict(b, 0, None, Some(Hundred \div 2))>>) :
        a \in Users, b \in Users}

\* requests the service rejects: an unknown user, an amount_owed of None
\* (with the total paid and with nothing paid), amounts paid that do not add
\* up to the total, an EQUAL split of 0.01 between two users the last of
\* whom paid nothing, a percentage sum of 50
RejectedRequests ==
    {ExpenseRequest("EQUAL", RequestTotal,
        <<ParticipantDict(UnknownUser, RequestTotal, None, None)>>),
     ExpenseRequest("MANUAL", RequestTotal,
        <<ParticipantDict(LedgerCreator, RequestTotal, None, None)>>),
     ExpenseRequest("MANUAL", RequestTotal,
        <<ParticipantDict(LedgerCreator, 0, None, None)>>),
     ExpenseRequest("MANUAL", RequestTotal,
        <<ParticipantDict(LedgerCreator, 0, Some(RequestTotal), None)>>),
     ExpenseRequest("EQUAL", RequestShare,
        <<ParticipantDict(LedgerCreator, RequestShare, None, None),
          ParticipantDict(LedgerCreator + 1, 0, None, None)>>),
     ExpenseRequest("PERCENTAGE", RequestTotal,
        <<ParticipantDict(LedgerCreator, RequestTotal, None,
                          Some(Hundred \div 2))>>)}

LedgerRequests ==
    ManualRequests \cup EqualRequests \cup PercentageRequests
        \cup RejectedRequests

\* update_expense looks at the request only once the expense is found and
\* the caller is its creator: one request stands for all the others until
\* then
RequestsFor(expense_id, user_id, requests) ==
    IF /\ expense_id \in DOMAIN expenses
       /\ expenses[expense_id].created_by_user_id = user_id
    THEN requests
    ELSE {CHOOSE req \in requests : TRUE}

\* PrepareParticipants of every request, computed once
Prepared == [req \in LedgerRequests |-> PrepareParticipants(req)]

----------------------------------------------------------------------------
(* The operations of ExpenseService *)

\* the exception create_expense raises, or "none"
create_expense_exc(req) == Prepared[req].exc

\* the id the next row of the expenses table gets
next_expense_id ==
    CHOOSE e \in ExpenseIds :
        /\ e \notin DOMAIN expenses
        /\ \A f \in ExpenseIds \ DOMAIN expenses : e <= f

\* ExpenseService.create_expense
CreateExpense(user_id, req) ==
    /\ Cardinality(DOMAIN expenses) < MaxExpenses
    /\ LET id == next_expense_id
       IN  expenses' =
              IF create_expense_exc(req) = "none"
              THEN expenses @@
                   (id :> [created_by_user_id |-> user_id,
                           total_amount |-> req.total_amount,
                           participants |->
                               StoredParticipants(Prepared[req].rows)])
              ELSE expenses
    /\ UNCHANGED <<cache, redis_up>>
    /\ UNCHANGED <<splitVars, userVars, readVars>>

\* the exception update_expense raises, or "none"
update_expense_exc(expense_id, user_id, req) ==
    IF expense_id \notin DOMAIN expenses THEN "NotFoundError"
    ELSE IF expenses[expense_id].created_by_user_id # user_id
         THEN "AuthorizationError"
    ELSE Prepared[req].exc

\* the expenses table update_expense leaves behind
update_expense_table(expense_id, user_id, req) ==
    IF update_expense_exc(expense_id, user_id, req) = "none"
    THEN [expenses EXCEPT ![expense_id] =
            [created_by_user_id |-> @.created_by_user_id,
             total_amount |-> req.total_amount,
             participants |-> StoredParticipants(Prepared[req].rows)]]
    ELSE expenses

\* ExpenseService.update_expense
UpdateExpense(expense_id, user_id, req) ==
    /\ expenses' = update_expense_table(expense_id, user_id, req)
    /\ UNCHANGED <<cache, redis_up>>
    /\ UNCHANGED <<splitVars, postVars, userVars, readVars>>

\* delete_expense_exc without the check of the creator
delete_expense_exc_any_caller(expense_id, user_id) ==
    IF expense_id \notin DOMAIN expenses THEN "NotFoundError"
    ELSE "none"

\* the exception delete_expense raises, or "none"
delete_expense_exc(expense_id, user_id) ==
    IF expense_id \notin DOMAIN expenses THEN "NotFoundError"
    ELSE IF expenses[expense_id].created_by_user_id # user_id
         THEN "AuthorizationError"
    ELSE "none"

\* the expenses table delete_expense leaves behind (the participant rows go
\* with the expense)
delete_expense_table(expense_id, user_id) ==
    IF delete_expense_exc(expense_id, user_id) = "none"
    THEN Remove(expenses, expense_id)
    ELSE expenses

\* ExpenseService.delete_expense
DeleteExpense(expense_id, user_id) ==
    /\ expenses' = delete_expense_table(expense_id, user_id)
    /\ UNCHANGED <<cache, redis_up>>
    /\ UNCHANGED <<splitVars, postVars, userVars, readVars>>

----------------------------------------------------------------------------
(* BalanceService.  The quotients of _calculate_pairwise_balance are kept  *)
(* as exact fractions: Decimal carries 28 significant digits, far more     *)
(* than any amount of the model needs, and only the final round_decimal    *)
(* rounds.                                                                 *)

Fraction(n, d) == [num |-> n, den |-> d]

FractionAdd(a, b) ==
    Fraction(a.num * b.den + b.num * a.den, a.den * b.den)

\* ExpenseRepository.get_user_expenses(db, user_id): the ids of the
\* expenses in which user_id participates
get_user_expenses(user_id) ==
    {e \in DOMAIN expenses : user_id \in ParticipantIds(expenses[e])}

\* amount_paid - amount_owed of one participant row
Contribution(row) == row.amount_paid - row.amount_owed

\* total_underpayment of one expense
TotalUnderpayment(expense) ==
    LET RECURSIVE Under(_)
        Under(S) ==
            IF S = {} THEN 0
            ELSE LET r == CHOOSE x \in S : TRUE
                     c == Contribution(r)
                 IN  (IF c < 0 THEN Abs(c) * expense.participants[r] ELSE 0)
                        + Under(S \ {r})
    IN  Under(DOMAIN expense.participants)

\* what one expense of user1 adds to total_balance
PairwiseTerm(expense, user1_id, user2_id) ==
    IF user2_id \notin ParticipantIds(expense) THEN Fraction(0, 1)
    ELSE
    LET user1_contribution == Contribution(ParticipantOf(expense, user1_id))
        user2_contribution == Contribution(ParticipantOf(expense, user2_id))
        total_underpayment == TotalUnderpayment(expense)
    IN  IF user1_contribution > 0 /\ user2_contribution < 0
        THEN IF total_underpayment > 0
             THEN Fraction(user1_contribution * Abs(user2_contribution),
                           total_underpayment)
             ELSE Fraction(0, 1)
        ELSE IF user1_contribution < 0 /\ user2_contribution > 0
        THEN IF total_underpayment > 0
             THEN Fraction(-(user2_contribution * Abs(user1_contribution)),
                           total_underpayment)
             ELSE Fraction(0, 1)
        ELSE Fraction(0, 1)

\* BalanceService._calculate_pairwise_balance
calculate_pairwise_balance(user1_id, user2_id) ==
    LET RECURSIVE Total(_)
        Total(S) ==
            IF S = {} THEN Fraction(0, 1)
            ELSE LET e == CHOOSE x \in S : TRUE
                 IN  FractionAdd(PairwiseTerm(expenses[e], user1_id, user2_id),
                                 Total(S \ {e}))
        total_balance == Total(get_user_expenses(user1_id))
    IN  round_decimal(total_balance.num, total_balance.den)

\* BalanceService._calculate_user_balances: other user -> non-zero balance
calculate_user_balances(user_id) ==
    LET other_user_ids ==
            UNION {ParticipantIds(expenses[e]) :
                      e \in get_user_expenses(user_id)} \ {user_id}
        nonzero == {o \in other_user_ids :
                       calculate_pairwise_balance(user_id, o) # 0}
    IN  [o \in nonzero |-> calculate_pairwise_balance(user_id, o)]

\* str(amount) of a Decimal quantized to 0.01: sign, integer digits and two
\* fractional digits
DecimalStr(amount) ==
    [sign |-> IF amount < 0 THEN "-" ELSE "",
     int |-> Abs(amount) \div (100 * quantize_value),
     frac |-> (Abs(amount) % (100 * quantize_value)) \div quantize_value]

\* Decimal(text) of such a string
DecimalOf(text) ==
    LET magnitude ==
            text.int * (100 * quantize_value) + text.frac * quantize_value
    IN  IF text.sign = "-" THEN -magnitude ELSE magnitude

\* str(user_id) of a UUID and UUID(text)
UuidStr(user_id) == <<"uuid", user_id>>
UuidOf(text) == text[2]

\* BalanceService._serialize_balances: the JSON object as a set of members
serialize_balances(balances_dict) ==
    {<<UuidStr(o), DecimalStr(balances_dict[o])>> : o \in DOMAIN balances_dict}

\* _deserialize_balances losing the sign of the amounts
deserialize_balances_unsigned(json_str) ==
    [o \in {UuidOf(m[1]) : m \in json_str} |->
        Abs(DecimalOf((CHOOSE m \in json_str : UuidOf(m[1]) = o)[2]))]

\* BalanceService._deserialize_balances
deserialize_balances(json_str) ==
    [o \in {UuidOf(m[1]) : m \in json_str} |->
        DecimalOf((CHOOSE m \in json_str : UuidOf(m[1]) = o)[2])]

\* f"balance:{user_id}"
BalanceKey(user_id) == <<"balance", user_id>>

\* a CacheService.get that lets the error of the backend through
CacheGetRaising(key) ==
    IF ~redis_up THEN [exc |-> "RedisError", hit |-> FALSE, value |-> {}]
    ELSE IF key \in DOMAIN cache
         THEN [exc |-> "none", hit |-> TRUE, value |-> cache[key]]
    ELSE [exc |-> "none", hit |-> FALSE, value |-> {}]

\* CacheService.get: the value of the key, or None when the key is absent
\* or the backend raises
CacheGet(key) ==
    IF ~redis_up THEN [exc |-> "none", hit |-> FALSE, value |-> {}]
    ELSE IF key \in DOMAIN cache
         THEN [exc |-> "none", hit |-> TRUE, value |-> cache[key]]
    ELSE [exc |-> "none", hit |-> FALSE, value |-> {}]

\* CacheService.set: the entries after the call and what it returns
CacheSet(key, value) ==
    IF ~redis_up THEN [exc |-> "none", returns |-> FALSE, entries |-> cache]
    ELSE [exc |-> "none", returns |-> TRUE,
          entries |-> [k \in DOMAIN cache \cup {key} |->
                          IF k = key THEN value ELSE cache[k]]]

\* CacheService.delete
CacheDelete(key) ==
    IF ~redis_up THEN [exc |-> "none", returns |-> FALSE, entries |-> cache]
    ELSE [exc |-> "none", returns |-> TRUE,
          entries |-> [k \in DOMAIN cache \ {key} |-> cache[k]]]

\* CacheService.delete_multiple
CacheDeleteMultiple(keys) ==
    IF keys = {} THEN [exc |-> "none", returns |-> TRUE, entries |-> cache]
    ELSE IF ~redis_up
         THEN [exc |-> "none", returns |-> FALSE, entries |-> cache]
    ELSE [exc |-> "none", returns |-> TRUE,
          entries |-> [k \in DOMAIN cache \ keys |-> cache[k]]]

\* balances_dict looking into the cache whatever use_cache says
balances_dict_cached(user_id, use_cache) ==
    IF CacheGet(BalanceKey(user_id)).hit
    THEN deserialize_balances(CacheGet(BalanceKey(user_id)).value)
    ELSE calculate_user_balances(user_id)

\* the balances_dict get_user_balances works with
balances_dict(user_id, use_cache) ==
    IF use_cache /\ CacheGet(BalanceKey(user_id)).hit
    THEN deserialize_balances(CacheGet(BalanceKey(user_id)).value)
    ELSE calculate_user_balances(user_id)

\* UserBalance with every balance taken as owed to the user
UserBalanceOwesYou(other_user_id, amount) ==
    [user |-> other_user_id, amount |-> Abs(amount), type |-> "owes_you"]

\* UserBalance(user=..., amount=balance_amount, type=balance_type) as
\* get_user_balances builds it
UserBalance(other_user_id, amount) ==
    [user |-> other_user_id,
     amount |-> IF amount > 0 THEN amount ELSE Abs(amount),
     type |-> IF amount > 0 THEN "owes_you" ELSE "you_owe"]

\* user_balances.sort(key=lambda b: b.amount, reverse=True); entries of equal
\* amount keep the order of the dict, which the model fixes arbitrarily
RECURSIVE SortByAmount(_)
SortByAmount(S) ==
    IF S = {} THEN <<>>
    ELSE LET b == CHOOSE x \in S : \A y \in S : x.amount >= y.amount
         IN  <<b>> \o SortByAmount(S \ {b})

\* what get_user_balances returns: the list of UserBalance objects
get_user_balances(user_id, use_cache) ==
    LET d == balances_dict(user_id, use_cache)
    IN  SortByAmount({UserBalance(o, d[o]) : o \in DOMAIN d \cap Users})

\* the exception get_user_balances raises, or "none"
get_user_balances_exc(user_id, use_cache) ==
    IF ~use_cache THEN "none"
    ELSE IF CacheGet(BalanceKey(user_id)).exc # "none"
         THEN CacheGet(BalanceKey(user_id)).exc
    ELSE IF CacheGet(BalanceKey(user_id)).hit THEN "none"
    ELSE CacheSet(BalanceKey(user_id),
                  serialize_balances(calculate_user_balances(user_id))).exc

\* the cache get_user_balances leaves behind: on a cache miss the computed
\* balances are stored under balance:{user_id}
get_user_balances_cache(user_id, use_cache) ==
    IF /\ use_cache
       /\ CacheGet(BalanceKey(user_id)).exc = "none"
       /\ ~CacheGet(BalanceKey(user_id)).hit
    THEN CacheSet(BalanceKey(user_id),
             serialize_balances(calculate_user_balances(user_id))).entries
    ELSE cache

\* BalanceService.get_user_balances
GetUserBalances(user_id, use_cache) ==
    /\ cache' = get_user_balances_cache(user_id, use_cache)
    /\ UNCHANGED <<expenses, redis_up>>
    /\ UNCHANGED <<splitVars, postVars, userVars, readVars>>

\* the exception invalidate_balances_for_users raises, or "none"
invalidate_balances_for_users_exc(user_ids) ==
    IF user_ids = {} THEN "none"
    ELSE CacheDeleteMultiple({BalanceKey(u) : u \in user_ids}).exc

\* BalanceService.invalidate_balances_for_users
InvalidateBalancesForUsers(user_ids) ==
    /\ cache' =
          CacheDeleteMultiple({BalanceKey(u) : u \in user_ids}).entries
    /\ UNCHANGED <<expenses, redis_up>>
    /\ UNCHANGED <<splitVars, postVars, userVars, readVars>>

\* an entry written with ttl=3600 expires
CacheExpire(key) ==
    /\ key \in DOMAIN cache
    /\ cache' = Remove(cache, key)
    /\ UNCHANGED <<expenses, redis_up>>
    /\ UNCHANGED <<splitVars, postVars, userVars, readVars>>

----------------------------------------------------------------------------
(* Concurrent calls of get_user_balances(user, use_cache=True).  The       *)
(* coroutine awaits the cache lookup, the computation from the database    *)
(* and the cache write, so concurrent calls interleave at these steps.     *)

\* number of concurrent get_user_balances calls for the same user
MaxReads == 2

Reads == 1..MaxReads

\* the user whose balances are read
ReadUser == LedgerCreator

\* no get_user_balances call in flight
IdleReads ==
    /\ read_pc = [r \in Reads |-> "idle"]
    /\ read_balances = [r \in Reads |-> <<>>]

\* the list get_user_balances builds from a balances_dict
to_user_balances(d) ==
    SortByAmount({UserBalance(o, d[o]) : o \in DOMAIN d \cap Users})

\* cached_data = await CacheService.get(cache_key): on a hit the cached
\* balances are deserialized and returned
ReadGet(r) ==
    /\ read_pc[r] = "get"
    /\ LET cached_data == CacheGet(BalanceKey(ReadUser))
       IN  IF cached_data.hit
           THEN /\ read_pc' = [read_pc EXCEPT ![r] = "done"]
                /\ read_balances' =
                      [read_balances EXCEPT
                          ![r] = deserialize_balances(cached_data.value)]
           ELSE /\ read_pc' = [read_pc EXCEPT ![r] = "compute"]
                /\ UNCHANGED read_balances
    /\ UNCHANGED <<dbVars, splitVars, postVars, userVars>>

\* balances_dict = await BalanceService._calculate_user_balances(user_id, db)
ReadCompute(r) ==
    /\ read_pc[r] = "compute"
    /\ read_pc' = [read_pc EXCEPT ![r] = "set"]
    /\ read_balances' =
          [read_balances EXCEPT ![r] = calculate_user_balances(ReadUser)]
    /\ UNCHANGED <<dbVars, splitVars, postVars, userVars>>

\* await CacheService.set(cache_key, serialized, ttl=3600), after which the
\* list is built and returned
ReadSet(r) ==
    /\ read_pc[r] = "set"
    /\ cache' = CacheSet(BalanceKey(ReadUser),
                         serialize_balances(read_balances[r])).entries
    /\ read_pc' = [read_pc EXCEPT ![r] = "done"]
    /\ UNCHANGED <<expenses, redis_up, read_balances>>
    /\ UNCHANGED <<splitVars, postVars, userVars>>

----------------------------------------------------------------------------
(* AuthService.register_user and the cached user count of                  *)
(* UserService.list_users                                                  *)

\* the emails and usernames that registrations of the model use
NumAccounts == 3

Accounts == 1..NumAccounts

\* search=None
NoSearch == CHOOSE s \in 0..NumAccounts : s \notin Accounts

\* str(total_count): the decimal digits of a non-negative int
RECURSIVE IntStr(_)
IntStr(n) ==
    IF n < 10 THEN <<n>> ELSE Append(IntStr(n \div 10), n % 10)

\* int(cached_count)
RECURSIVE IntOf(_)
IntOf(text) ==
    IF Len(text) = 1 THEN text[1]
    ELSE 10 * IntOf(SubSeq(text, 1, Len(text) - 1)) + text[Len(text)]

\* UserService._get_user_count_cache_key
get_user_count_cache_key(search) ==
    IF search # NoSearch THEN <<"user_count:search", search>>
    ELSE <<"user_count:all">>

\* UserRepository.count: the search terms of the model are whole emails or
\* usernames, which match the rows that carry them
count(search) ==
    Cardinality({r \in user_rows :
                    \/ search = NoSearch
                    \/ r.email = search
                    \/ r.username = search})

\* the total count list_users returns
list_users_total(search, use_cache) ==
    IF use_cache
    THEN LET cached_count == CacheGet(get_user_count_cache_key(search))
         IN  IF cached_count.hit THEN IntOf(cached_count.value)
             ELSE count(search)
    ELSE count(search)

\* UserService.list_users: on a cache miss the count is stored
ListUsers(search, use_cache) ==
    /\ cache' =
          IF use_cache /\ ~CacheGet(get_user_count_cache_key(search)).hit
          THEN CacheSet(get_user_count_cache_key(search),
                        IntStr(count(search))).entries
          ELSE cache
    /\ UNCHANGED <<expenses, redis_up, user_rows>>
    /\ UNCHANGED <<splitVars, postVars, readVars>>

\* the exception register_user raises, or "none"
register_user_exc(email, username) ==
    IF \E r \in user_rows : r.email = email THEN "ConflictError"
    ELSE IF \E r \in user_rows : r.username = username THEN "ConflictError"
    ELSE "none"

\* AuthService.register_user: the row is created and committed; the cache
\* is not touched
RegisterUser(email, username) ==
    /\ user_rows' =
          IF register_user_exc(email, username) = "none"
          THEN user_rows \cup {[email |-> email, username |-> username]}
          ELSE user_rows
    /\ UNCHANGED dbVars
    /\ UNCHANGED <<splitVars, postVars, readVars>>

\* UserService.invalidate_user_count_cache
InvalidateUserCountCache ==
    /\ cache' = CacheDelete(get_user_count_cache_key(NoSearch)).entries
    /\ UNCHANGED <<expenses, redis_up, user_rows>>
    /\ UNCHANGED <<splitVars, postVars, readVars>>

\* the loop of get_balance_summary: the totals and counts per type
RECURSIVE SummaryTotals(_)
SummaryTotals(user_balances) ==
    IF user_balances = <<>>
    THEN [total_owed_to_you |-> 0, total_you_owe |-> 0,
          num_people_owe_you |-> 0, num_people_you_owe |-> 0]
    ELSE LET balance == Head(user_balances)
             rest == SummaryTotals(Tail(user_balances))
         IN  IF balance.type = "owes_you"
             THEN [rest EXCEPT
                     !.total_owed_to_you = @ + balance.amount,
                     !.num_people_owe_you = @ + 1]
             ELSE [rest EXCEPT
                     !.total_you_owe = @ + balance.amount,
                     !.num_people_you_owe = @ + 1]

\* get_balance_summary with the two totals added up
get_balance_summary_adding(user_id, use_cache) ==
    LET t == SummaryTotals(get_user_balances(user_id, use_cache))
    IN  [overall_balance |->
             round_decimal(t.total_owed_to_you + t.total_you_owe, 1),
         total_you_owe |-> round_decimal(t.total_you_owe, 1),
         total_owed_to_you |-> round_decimal(t.total_owed_to_you, 1),
         num_people_you_owe |-> t.num_people_you_owe,
         num_people_owe_you |-> t.num_people_owe_you]

\* BalanceService.get_balance_summary
get_balance_summary(user_id, use_cache) ==
    LET t == SummaryTotals(get_user_balances(user_id, use_cache))
    IN  [overall_balance |->
             round_decimal(t.total_owed_to_you - t.total_you_owe, 1),
         total_you_owe |-> round_decimal(t.total_you_owe, 1),
         total_owed_to_you |-> round_decimal(t.total_owed_to_you, 1),
         num_people_you_owe |-> t.num_people_you_owe,
         num_people_owe_you |-> t.num_people_owe_you]

\* get_balance_with_user with the sign alone deciding the type
get_balance_with_user_by_sign(current_user_id, other_user_id) ==
    IF other_user_id \notin Users
    THEN [exc |-> "NotFoundError", type |-> "none", amount |-> 0]
    ELSE LET balance_amount ==
                 calculate_pairwise_balance(current_user_id, other_user_id)
         IN  IF balance_amount > 0
             THEN [exc |-> "none", type |-> "owes_you",
                   amount |-> balance_amount]
             ELSE [exc |-> "none", type |-> "you_owe",
                   amount |-> Abs(balance_amount)]

\* BalanceService.get_balance_with_user: the exception, type and amount of
\* the returned UserBalanceDetail (the shared expense history is left out)
get_balance_with_user(current_user_id, other_user_id) ==
    IF other_user_id \notin Users
    THEN [exc |-> "NotFoundError", type |-> "none", amount |-> 0]
    ELSE LET balance_amount ==
                 calculate_pairwise_balance(current_user_id, other_user_id)
         IN  IF balance_amount > 0
             THEN [exc |-> "none", type |-> "owes_you",
                   amount |-> balance_amount]
             ELSE IF balance_amount < 0
             THEN [exc |-> "none", type |-> "you_owe",
                   amount |-> Abs(balance_amount)]
             ELSE [exc |-> "none", type |-> "owes_you", amount |-> 0]

----------------------------------------------------------------------------
(* POST /expenses (api/v1/expenses.py create_expense) with an               *)
(* Idempotency-Key header.  The handler awaits the cache lookup, the        *)
(* service call and the cache write, so concurrent requests interleave at   *)
(* these three steps.                                                       *)

\* number of concurrent POST requests with the same key and user
MaxPosts == 2

Posts == 1..MaxPosts

\* no POST request in flight
IdlePosts ==
    /\ post_pc = [r \in Posts |-> "idle"]
    /\ post_response = [r \in Posts |-> [status |-> "none", id |-> 0]]

\* f"idempotency:expense:{idempotency_key}:{current_user.id}"
IdempotencyKey(idempotency_key, user_id) ==
    <<"idempotency:expense", idempotency_key, user_id>>

\* the key of the requests of the model
PostKey == IdempotencyKey("key", LedgerCreator)

\* cached_response = await CacheService.get(cache_key): on a hit the cached
\* response is returned
PostCheck(r) ==
    /\ post_pc[r] = "check"
    /\ LET cached_response == CacheGet(PostKey)
       IN  IF cached_response.hit
           THEN /\ post_pc' = [post_pc EXCEPT ![r] = "done"]
                /\ post_response' =
                      [post_response EXCEPT
                          ![r] = [status |-> "created",
                                  id |-> UuidOf(cached_response.value)]]
           ELSE /\ post_pc' = [post_pc EXCEPT ![r] = "create"]
                /\ UNCHANGED post_response
    /\ UNCHANGED <<dbVars, splitVars, userVars, readVars>>

\* expense = await ExpenseService.create_expense(...): an exception ends the
\* request
PostCreate(r, req) ==
    /\ post_pc[r] = "create"
    /\ CreateExpense(LedgerCreator, req)
    /\ IF create_expense_exc(req) = "none"
       THEN /\ post_pc' = [post_pc EXCEPT ![r] = "store"]
            /\ post_response' =
                  [post_response EXCEPT
                      ![r] = [status |-> "created", id |-> next_expense_id]]
       ELSE /\ post_pc' = [post_pc EXCEPT ![r] = "done"]
            /\ post_response' =
                  [post_response EXCEPT
                      ![r] = [status |-> create_expense_exc(req), id |-> 0]]

\* await CacheService.set(cache_key, json.dumps(response_dict), ttl=86400)
\* and return response
PostStore(r) ==
    /\ post_pc[r] = "store"
    /\ cache' = CacheSet(PostKey, UuidStr(post_response[r].id)).entries
    /\ post_pc' = [post_pc EXCEPT ![r] = "done"]
    /\ UNCHANGED <<expenses, redis_up, post_response>>
    /\ UNCHANGED <<splitVars, userVars, readVars>>

----------------------------------------------------------------------------
(* SplitSpec: calculate_splits applied to bounded inputs *)

\* total_amount values: 0.01, 0.015, 0.05 and 100.00
SplitTotals == {10, 15, 50, 100000}

\* percentage values: -50, 33.33, 33.34, 50, 50.01, 50.015, 100 and 100.01
\* percent
PercentageValues == {-10000, 6666, 6668, 10000, 10002, 10003, 20000, 20002}

\* amount_owed values of MANUAL participants: -0.01, 0, 0.005, 0.01, 0.021,
\* 50.00, 50.01 and 50.011
OwedValues == {-10, 0, 5, 10, 21, 50000, 50010, 50011}

Optional(S) == {Some(v) : v \in S} \cup {None, Missing}

\* the user ids of a list of n dicts, in ascending or descending order
UserIdOrders(n) ==
    {[i \in 1..n |-> i], [i \in 1..n |-> n + 1 - i]}

EqualInputs ==
    UNION {{[i \in 1..n |-> ParticipantDict(ids[i], 0, None, None)] :
               ids \in UserIdOrders(n)} : n \in 0..MaxEqualParticipants}

PercentageInputs ==
    UNION {{[i \in 1..n |-> ParticipantDict(ids[i], 0, None, pcts[i])] :
               ids \in UserIdOrders(n),
               pcts \in [1..n -> Optional(PercentageValues)]} :
           n \in 0..MaxSplitParticipants}

ManualInputs ==
    UNION {{[i \in 1..n |-> ParticipantDict(ids[i], 0, owed[i], None)] :
               ids \in UserIdOrders(n),
               owed \in [1..n -> Optional(OwedValues)]} :
           n \in 0..MaxSplitParticipants}

SplitInit ==
    /\ split_type \in {"EQUAL", "PERCENTAGE", "MANUAL"}
    /\ total_amount \in SplitTotals
    /\ participant_data \in
          CASE split_type = "EQUAL" -> EqualInputs
            [] split_type = "PERCENTAGE" -> PercentageInputs
            [] split_type = "MANUAL" -> ManualInputs
    /\ splits = <<>>
    /\ raised = "pending"
    /\ expenses = NoExpenses
    /\ cache = NoCache
    /\ redis_up = TRUE
    /\ IdlePosts
    /\ user_rows = LedgerAccounts
    /\ IdleReads

Calculate(kind) ==
    /\ raised = "pending"
    /\ split_type = kind
    /\ LET r == calculate_splits(kind, total_amount, participant_data)
       IN  /\ splits' = r.splits
           /\ raised' = r.exc
    /\ UNCHANGED <<split_type, total_amount, participant_data>>
    /\ UNCHANGED <<dbVars, postVars, userVars, readVars>>

CalculateEqual == Calculate("EQUAL")
CalculatePercentage == Calculate("PERCENTAGE")
CalculateManual == Calculate("MANUAL")

SplitNext == CalculateEqual \/ CalculatePercentage \/ CalculateManual

SplitSpec == SplitInit /\ [][SplitNext]_vars

\* facts about the call of SplitSpec
N == Len(participant_data)
Called(kind) == split_type = kind /\ raised # "pending"
ReturnedOwed == [i \in 1..Len(splits) |-> splits[i].amount_owed]
AllPercentagesSupplied ==
    \A i \in 1..N : IsValue(participant_data[i].percentage)
SuppliedPercentageSum ==
    sum_decimals([i \in 1..N |-> PercentageOrZero(participant_data[i])])
AllOwedSupplied ==
    \A i \in 1..N : IsValue(participant_data[i].amount_owed)
SuppliedOwedSum ==
    sum_decimals([i \in 1..N |-> ManualAmount(participant_data[i])])

----------------------------------------------------------------------------
(* LedgerSpec: the expense operations on the persisted data *)

IdleSplit ==
    /\ split_type = "EQUAL"
    /\ total_amount = 10
    /\ participant_data = <<>>
    /\ splits = <<>>
    /\ raised = "none"

LedgerInit ==
    /\ expenses = NoExpenses
    /\ cache = NoCache
    /\ redis_up = TRUE
    /\ IdleSplit
    /\ IdlePosts
    /\ user_rows = LedgerAccounts
    /\ IdleReads

LedgerCreate ==
    /\ \E req \in LedgerRequests : CreateExpense(LedgerCreator, req)
    /\ UNCHANGED postVars

LedgerUpdate ==
    \E e \in ExpenseIds, u \in Users :
        \E req \in RequestsFor(e, u, LedgerRequests) : UpdateExpense(e, u, req)

LedgerDelete == \E e \in ExpenseIds, u \in Users : DeleteExpense(e, u)

LedgerNext == LedgerCreate \/ LedgerUpdate \/ LedgerDelete

LedgerSpec == LedgerInit /\ [][LedgerNext]_vars

----------------------------------------------------------------------------
(* Spec: the expense operations together with the cached balance reads.    *)
(* BalanceService.invalidate_balances_for_users has no caller in the       *)
(* application, so no step of Spec takes it.                               *)

\* the two users whose expenses Spec creates
SpecUsers == {LedgerCreator, LedgerCreator + 1}

\* the MANUAL requests among SpecUsers and the rejected requests
SpecRequests ==
    {req \in ManualRequests :
        \A i \in 1..Len(req.participants) :
            req.participants[i].user_id \in SpecUsers}
        \cup RejectedRequests

Init ==
    /\ expenses = NoExpenses
    /\ cache = NoCache
    /\ redis_up = TRUE
    /\ IdleSplit
    /\ IdlePosts
    /\ user_rows = LedgerAccounts
    /\ IdleReads

Create ==
    /\ \E req \in SpecRequests : CreateExpense(LedgerCreator, req)
    /\ UNCHANGED postVars

Update ==
    \E e \in ExpenseIds, u \in Users :
        \E req \in RequestsFor(e, u, SpecRequests) : UpdateExpense(e, u, req)

Delete == \E e \in ExpenseIds, u \in Users : DeleteExpense(e, u)

GetBalances ==
    \E u \in Users, use_cache \in BOOLEAN : GetUserBalances(u, use_cache)

Expire == \E u \in Users : CacheExpire(BalanceKey(u))

\* the Redis backend goes down: every call of the client raises
BackendFails ==
    /\ redis_up
    /\ redis_up' = FALSE
    /\ UNCHANGED <<expenses, cache>>
    /\ UNCHANGED <<splitVars, postVars, userVars, readVars>>

\* the Redis backend answers again, with the entries it had
BackendRecovers ==
    /\ ~redis_up
    /\ redis_up' = TRUE
    /\ UNCHANGED <<expenses, cache>>
    /\ UNCHANGED <<splitVars, postVars, userVars, readVars>>

Next ==
    \/ Create \/ Update \/ Delete \/ GetBalances \/ Expire
    \/ BackendFails \/ BackendRecovers

Spec == Init /\ [][Next]_vars

----------------------------------------------------------------------------
(* IdempotencySpec: concurrent POST /expenses requests of one user with one *)
(* Idempotency-Key, the key within its lifetime and the cache healthy       *)

IdempotencyInit ==
    /\ expenses = NoExpenses
    /\ cache = NoCache
    /\ redis_up = TRUE
    /\ IdleSplit
    /\ post_pc = [r \in Posts |-> "check"]
    /\ post_response = [r \in Posts |-> [status |-> "none", id |-> 0]]
    /\ user_rows = LedgerAccounts
    /\ IdleReads

IdempotencyCheck == \E r \in Posts : PostCheck(r)

IdempotencyCreate == \E r \in Posts, req \in SpecRequests : PostCreate(r, req)

IdempotencyStore == \E r \in Posts : PostStore(r)

IdempotencyNext == IdempotencyCheck \/ IdempotencyCreate \/ IdempotencyStore

IdempotencySpec == IdempotencyInit /\ [][IdempotencyNext]_vars

----------------------------------------------------------------------------
(* UserSpec: registrations and listings of users in a sequential history   *)
(* with a healthy cache.  UserService.invalidate_user_count_cache has no    *)
(* caller in the application, so no step of UserSpec takes it.              *)

UserInit ==
    /\ expenses = NoExpenses
    /\ cache = NoCache
    /\ redis_up = TRUE
    /\ IdleSplit
    /\ IdlePosts
    /\ user_rows = {}
    /\ IdleReads

Register == \E email \in Accounts, username \in Accounts :
                RegisterUser(email, username)

List == \E search \in {NoSearch} \cup Accounts, use_cache \in BOOLEAN :
            ListUsers(search, use_cache)

CountExpire ==
    \E search \in {NoSearch} \cup Accounts :
        CacheExpire(get_user_count_cache_key(search))

UserNext == Register \/ List \/ CountExpire

UserSpec == UserInit /\ [][UserNext]_vars

----------------------------------------------------------------------------
(* ReadSpec: concurrent get_user_balances calls on a table that no expense  *)
(* operation changes                                                        *)

\* the table after one create_expense of the request
TableOf(req) ==
    LedgerCreator :>
        [created_by_user_id |-> LedgerCreator,
         total_amount |-> req.total_amount,
         participants |-> StoredParticipants(Prepared[req].rows)]

\* the tables the calls read: empty, or one expense of a request of Spec
ReadTables ==
    {NoExpenses} \cup
    {TableOf(req) : req \in {q \in SpecRequests : create_expense_exc(q) = "none"}}

ReadInit ==
    /\ expenses \in ReadTables
    /\ cache = NoCache
    /\ redis_up = TRUE
    /\ IdleSplit
    /\ IdlePosts
    /\ user_rows = LedgerAccounts
    /\ read_pc = [r \in Reads |-> "get"]
    /\ read_balances = [r \in Reads |-> <<>>]

ReadLookup == \E r \in Reads : ReadGet(r)

ReadCalculate == \E r \in Reads : ReadCompute(r)

ReadStore == \E r \in Reads : ReadSet(r)

ReadExpire == CacheExpire(BalanceKey(ReadUser))

ReadNext == ReadLookup \/ ReadCalculate \/ ReadStore \/ ReadExpire

ReadSpec == ReadInit /\ [][ReadNext]_vars

----------------------------------------------------------------------------
(* RaceSpec: the expense operations of Spec interleaved with concurrent    *)
(* get_user_balances calls                                                  *)

RaceInit ==
    /\ expenses = NoExpenses
    /\ cache = NoCache
    /\ redis_up = TRUE
    /\ IdleSplit
    /\ IdlePosts
    /\ user_rows = LedgerAccounts
    /\ read_pc = [r \in Reads |-> "get"]
    /\ read_balances = [r \in Reads |-> <<>>]

RaceNext ==
    \/ Create \/ Update \/ Delete
    \/ ReadLookup \/ ReadCalculate \/ ReadStore

RaceSpec == RaceInit /\ [][RaceNext]_vars

\* the participants of the expenses that differ between two states of the
\* expenses table
AffectedUsers(before, after) ==
    LET changed == {e \in DOMAIN before \cup DOMAIN after :
                       \/ e \notin DOMAIN before
                       \/ e \notin DOMAIN after
                       \/ before[e] # after[e]}
    IN  UNION {(IF e \in DOMAIN before
                THEN ParticipantIds(before[e]) ELSE {})
               \cup (IF e \in DOMAIN after
                     THEN ParticipantIds(after[e]) ELSE {}) :
               e \in changed}

----------------------------------------------------------------------------
(* Claims about the cache and the balances *)

\* C1: every successful create_expense, update_expense and delete_expense
\* deletes the cache key balance:{userId} of every participant of the
\* affected expense (for an update: the participants before and after it),
\* so that no such key is left in the cache when the call returns.
C1_MutationInvalidatesParticipants ==
    [][\A u \in AffectedUsers(expenses, expenses') :
          BalanceKey(u) \notin DOMAIN cache']_vars

\* C2: when a create, update or delete of an expense has completed, the next
\* get_user_balances(user, use_cache=True) of every participant whose
\* balances were cached returns the balances computed from the persisted
\* participations.
C2_ReadAfterMutationIsFresh ==
    [][\A u \in AffectedUsers(expenses, expenses') :
          BalanceKey(u) \in DOMAIN cache =>
              balances_dict(u, TRUE)' = calculate_user_balances(u)']_vars

C11_ConsecutiveReadsAgree ==
    \A u \in Users :
        Range(get_user_balances(u, TRUE)) = Range(get_user_balances(u, FALSE))

\* C12: while the cache backend fails, no error reaches the caller:
\* CacheService.get returns None, set, delete and delete_multiple return
\* False, get_user_balances(use_cache=True) returns what it returns with
\* use_cache=False, and invalidate_balances_for_users does not raise.
C12_BackendFailureDegrades ==
    ~redis_up =>
        \A u \in Users :
            LET key == BalanceKey(u)
                value == serialize_balances(calculate_user_balances(u))
            IN  /\ CacheGet(key).exc = "none" /\ ~CacheGet(key).hit
                /\ CacheSet(key, value).exc = "none"
                /\ ~CacheSet(key, value).returns
                /\ CacheDelete(key).exc = "none"
                /\ ~CacheDelete(key).returns
                /\ CacheDeleteMultiple({key}).exc = "none"
                /\ ~CacheDeleteMultiple({key}).returns
                /\ get_user_balances_exc(u, TRUE) = "none"
                /\ get_user_balances(u, TRUE) = get_user_balances(u, FALSE)
                /\ invalidate_balances_for_users_exc({u}) = "none"

\* the backend is down while it holds an entry of some user that differs
\* from the balances computed for that user
C12_Witness ==
    /\ ~redis_up
    /\ \E u \in Users :
          /\ BalanceKey(u) \in DOMAIN cache
          /\ deserialize_balances(cache[BalanceKey(u)])
                # calculate_user_balances(u)
          /\ get_user_balances(u, TRUE) # <<>>

\* C13: for any interleaving of POST /expenses requests of one user with
\* one Idempotency-Key, at most one expense is persisted and every successful
\* response carries the id of that expense.
C13_IdempotentPost ==
    /\ Cardinality(DOMAIN expenses) <= 1
    /\ \A r \in Posts :
          post_response[r].status = "created" =>
              DOMAIN expenses = {post_response[r].id}

\* C14: get_balance_with_user(current, other) raises NotFoundError, with
\* nothing computed, exactly when the other user does not exist; otherwise a
\* zero pairwise balance (no shared expense included) gives type "owes_you"
\* and amount 0, a positive one "owes_you" and a negative one "you_owe", the
\* amount being the absolute value.
C14_BalanceWithUser ==
    \A current \in Users, other \in Users \cup {UnknownUser} :
        LET detail == get_balance_with_user(current, other)
        IN  /\ (detail.exc = "NotFoundError") <=> (other \notin Users)
            /\ other \notin Users =>
                  detail.type = "none" /\ detail.amount = 0
            /\ other \in Users =>
                  LET balance == calculate_pairwise_balance(current, other)
                  IN  /\ detail.exc = "none"
                      /\ detail.amount = Abs(balance)
                      /\ detail.type =
                            IF balance >= 0 THEN "owes_you" ELSE "you_owe"

\* an expense is persisted, one pair of users settles to a positive balance,
\* and another pair shares no expense
C14_Witness ==
    \E a, b, c \in Users :
        /\ calculate_pairwise_balance(a, b) > 0
        /\ get_balance_with_user(b, a).type = "you_owe"
        /\ \A e \in DOMAIN expenses : c \notin ParticipantIds(expenses[e])
        /\ get_balance_with_user(a, c).amount = 0

\* the amounts of the entries of one type in a list of balances
AmountsOfType(user_balances, type) ==
    LET chosen == SelectSeq(user_balances, LAMBDA b : b.type = type)
    IN  [i \in 1..Len(chosen) |-> chosen[i].amount]

\* C15: in get_balance_summary, total_owed_to_you is the sum of the amounts
\* of the "owes_you" entries of the list get_user_balances returns,
\* total_you_owe the sum of the "you_owe" amounts, overall_balance their
\* difference, and the two counts add up to the length of the list.
C15_SummaryMatchesList ==
    \A u \in Users, use_cache \in BOOLEAN :
        LET user_balances == get_user_balances(u, use_cache)
            summary == get_balance_summary(u, use_cache)
            owed_to_you == sum_decimals(AmountsOfType(user_balances, "owes_you"))
            you_owe == sum_decimals(AmountsOfType(user_balances, "you_owe"))
        IN  /\ summary.total_owed_to_you = owed_to_you
            /\ summary.total_you_owe = you_owe
            /\ summary.overall_balance = owed_to_you - you_owe
            /\ summary.num_people_owe_you =
                  Len(AmountsOfType(user_balances, "owes_you"))
            /\ summary.num_people_you_owe =
                  Len(AmountsOfType(user_balances, "you_owe"))
            /\ summary.num_people_owe_you + summary.num_people_you_owe =
                  Len(user_balances)

\* a user whose list holds entries of both types
C15_Witness ==
    \E u \in Users :
        /\ get_balance_summary(u, FALSE).num_people_owe_you > 0
        /\ get_balance_summary(u, FALSE).num_people_you_owe > 0
        /\ get_balance_summary(u, FALSE).total_you_owe > 0

\* the list holds one entry for every counterparty with a non-zero pairwise
\* balance and none for the others, each entry with a positive amount and
\* the type of the sign, in non-increasing order of amount
ListMatchesBalances(user_id, user_balances) ==
    /\ \A o \in Users \ {user_id} :
          LET balance == calculate_pairwise_balance(user_id, o)
              entries == {i \in 1..Len(user_balances) :
                              user_balances[i].user = o}
          IN  IF balance = 0 THEN entries = {}
              ELSE /\ Cardinality(entries) = 1
                   /\ \A i \in entries :
                         /\ user_balances[i].amount = Abs(balance)
                         /\ user_balances[i].type =
                               IF balance > 0 THEN "owes_you" ELSE "you_owe"
    /\ \A i \in 1..Len(user_balances) :
          /\ user_balances[i].amount > 0
          /\ user_balances[i].user \in Users \ {user_id}
    /\ \A i \in 1..Len(user_balances) - 1 :
          user_balances[i].amount >= user_balances[i + 1].amount

\* C16: the list returned by get_user_balances has one entry per
\* counterparty whose pairwise balance with the user is non-zero and none
\* for a zero balance; each amount is positive, the type is "owes_you" for a
\* positive and "you_owe" for a negative balance, and the amounts are in
\* non-increasing order.
C16_BalanceListMatchesPairwise ==
    \A u \in Users : ListMatchesBalances(u, get_user_balances(u, TRUE))

\* the sum of amount_paid - amount_owed over the participant rows of one
\* expense that belong to the given users
RECURSIVE ContributionSum(_, _, _)
ContributionSum(expense, rows, user_ids) ==
    IF rows = {} THEN 0
    ELSE LET r == CHOOSE x \in rows : TRUE
         IN  (IF r.user_id \in user_ids
              THEN Contribution(r) * expense.participants[r]
              ELSE 0)
                + ContributionSum(expense, rows \ {r}, user_ids)

\* the sum over the expenses of the user of amount_paid - amount_owed
RECURSIVE NetPosition(_, _)
NetPosition(user_id, expense_ids) ==
    IF expense_ids = {} THEN 0
    ELSE LET e == CHOOSE x \in expense_ids : TRUE
         IN  ContributionSum(expenses[e], DOMAIN expenses[e].participants,
                             {user_id})
                + NetPosition(user_id, expense_ids \ {e})

\* in every persisted expense the amounts paid add up to the amounts owed
ExpensesBalanced ==
    \A e \in DOMAIN expenses :
        ContributionSum(expenses[e], DOMAIN expenses[e].participants,
                        Users) = 0

\* C17: when in every persisted expense the sum of amount_paid equals the sum
\* of amount_owed, the overall_balance of get_balance_summary(u) computed
\* without cache is, for every user u, the sum over u's expenses of
\* amount_paid(u) - amount_owed(u).
C17_OverallBalanceIsNetPosition ==
    ExpensesBalanced =>
        \A u \in Users :
            get_balance_summary(u, FALSE).overall_balance =
                NetPosition(u, get_user_expenses(u))

\* C18: update_expense and delete_expense change persisted data only when
\* the caller is the creator of the expense: for a missing expense they raise
\* NotFoundError, for an existing expense and another caller
\* AuthorizationError, and in both cases the expense and its participations
\* stay as they are.
C18_OnlyCreatorMutates ==
    \A e \in ExpenseIds, u \in Users \cup {UnknownUser} :
        LET is_creator ==
                /\ e \in DOMAIN expenses
                /\ expenses[e].created_by_user_id = u
            expected ==
                IF e \notin DOMAIN expenses THEN "NotFoundError"
                ELSE "AuthorizationError"
        IN  /\ ~is_creator =>
                  /\ delete_expense_exc(e, u) = expected
                  /\ delete_expense_table(e, u) = expenses
                  /\ \A req \in LedgerRequests :
                        /\ update_expense_exc(e, u, req) = expected
                        /\ update_expense_table(e, u, req) = expenses
            /\ is_creator =>
                  /\ delete_expense_exc(e, u) = "none"
                  /\ delete_expense_table(e, u) # expenses

\* an expense is persisted, a user who did not create it calls, and another
\* expense id is missing
C18_Witness ==
    \E e \in DOMAIN expenses, u \in Users, f \in ExpenseIds \ DOMAIN expenses :
        \E req \in ManualRequests :
            /\ expenses[e].created_by_user_id # u
            /\ u \in ParticipantIds(expenses[e])
            /\ update_expense_exc(e, u, req) = "AuthorizationError"
            /\ create_expense_exc(req) = "none"
            /\ delete_expense_exc(f, u) = "NotFoundError"

\* the amounts paid of the request differ from its total by more than 0.01
PaidMismatch(req) ==
    Abs(sum_decimals([i \in 1..Len(req.participants) |->
                         req.participants[i].amount_paid])
          - req.total_amount) > AmountTolerance

\* C19: create_expense and update_expense raise ValidationError whenever the
\* amounts paid differ from total_amount by more than 0.01, and the failing
\* call leaves every expense and participation as it is.
C19_PaidMismatchIsValidationError ==
    \A req \in LedgerRequests :
        PaidMismatch(req) =>
            /\ create_expense_exc(req) = "ValidationError"
            /\ \A e \in DOMAIN expenses :
                  LET creator == expenses[e].created_by_user_id
                  IN  /\ update_expense_exc(e, creator, req) = "ValidationError"
                      /\ update_expense_table(e, creator, req) = expenses

\* C20: after any sequence of create_expense and update_expense calls, calls
\* whose participant list names a user twice included, no persisted expense
\* has two participation records for the same user.
C20_OneParticipationPerUser ==
    \A e \in DOMAIN expenses :
        \A r1, r2 \in DOMAIN expenses[e].participants :
            /\ expenses[e].participants[r1] = 1
            /\ r1.user_id = r2.user_id => r1 = r2

\* an expense with several participants is persisted, and an update of it
\* that names one user twice is refused by the database
C20_Witness ==
    \E e \in DOMAIN expenses, req \in PercentageRequests :
        /\ Cardinality(ParticipantIds(expenses[e])) > 1
        /\ req.participants[1].user_id = req.participants[2].user_id
        /\ update_expense_exc(e, expenses[e].created_by_user_id, req)
              = "IntegrityError"
        /\ create_expense_exc(req) = "IntegrityError"

\* the request passes the validations of the service and its computed split
\* leaves a participant with nothing paid and nothing owed
LeavesEmptyParticipant(req) ==
    LET r == calculate_splits(req.split_type, req.total_amount,
                              req.participants)
        rows == ParticipantRows(req.participants, r.splits)
    IN  /\ validate_participants_exist(req.participants) = "none"
        /\ r.exc = "none"
        /\ validate_amounts(req.total_amount, req.participants, r.splits)
              = "none"
        /\ \E i \in 1..Len(rows) :
              rows[i].amount_paid = 0 /\ rows[i].amount_owed = 0

\* C21: every persisted participation record has amount_paid > 0 or
\* amount_owed > 0, and a request whose computed split leaves a participant
\* with both at zero is rejected with ValidationError.
C21_EmptyParticipantIsValidationError ==
    /\ \A e \in DOMAIN expenses :
          \A r \in DOMAIN expenses[e].participants :
              r.amount_paid > 0 \/ r.amount_owed > 0
    /\ \A req \in LedgerRequests :
          LeavesEmptyParticipant(req) =>
              create_expense_exc(req) = "ValidationError"

\* C22: every successful register_user invalidates the cached user count,
\* so that the total count list_users(use_cache=True) returns without a
\* search term after a registration is the number of users stored.
C22_RegistrationRefreshesCount ==
    [][user_rows' # user_rows =>
          /\ get_user_count_cache_key(NoSearch) \notin DOMAIN cache'
          /\ list_users_total(NoSearch, TRUE)' = Cardinality(user_rows')]_vars

C24_StalenessEndsWithMutation ==
    (\A r \in Reads : read_pc[r] = "done") =>
        (BalanceKey(ReadUser) \in DOMAIN cache =>
            deserialize_balances(cache[BalanceKey(ReadUser)])
                = calculate_user_balances(ReadUser))

\* C25: get_user_balances and get_balance_summary called with
\* use_cache=False leave the cache as it is and return what is computed from
\* the persisted participations, whatever the cache holds.
C25_BypassIgnoresCache ==
    \A u \in Users :
        LET fresh == to_user_balances(calculate_user_balances(u))
            totals == SummaryTotals(fresh)
            summary == get_balance_summary(u, FALSE)
        IN  /\ get_user_balances_cache(u, FALSE) = cache
            /\ get_user_balances_exc(u, FALSE) = "none"
            /\ get_user_balances(u, FALSE) = fresh
            /\ summary.total_owed_to_you = totals.total_owed_to_you
            /\ summary.total_you_owe = totals.total_you_owe
            /\ summary.overall_balance =
                  totals.total_owed_to_you - totals.total_you_owe
            /\ summary.num_people_owe_you = totals.num_people_owe_you
            /\ summary.num_people_you_owe = totals.num_people_you_owe

\* the backend answers and holds an entry for a user that differs from the
\* balances computed from the table
C25_Witness ==
    \E u \in Users :
        /\ redis_up
        /\ BalanceKey(u) \in DOMAIN cache
        /\ deserialize_balances(cache[BalanceKey(u)])
              # calculate_user_balances(u)
        /\ get_user_balances(u, TRUE) # get_user_balances(u, FALSE)
        /\ get_balance_summary(u, FALSE).overall_balance # 0

\* the signed balance a list of UserBalance entries reports for a
\* counterparty: absent means zero
SignedInList(user_balances, other_user_id) ==
    LET entries == {i \in 1..Len(user_balances) :
                        user_balances[i].user = other_user_id}
    IN  IF entries = {} THEN 0
        ELSE LET b == user_balances[CHOOSE i \in entries : TRUE]
             IN  IF b.type = "owes_you" THEN b.amount ELSE -b.amount

\* the signed balance a UserBalanceDetail reports
SignedInDetail(detail) ==
    IF detail.type = "owes_you" THEN detail.amount ELSE -detail.amount

\* C27: for every user u and counterparty x, in every reachable state, the
\* signed balance get_user_balances(u) reports for x (absent meaning zero)
\* is the signed balance get_balance_with_user(u, x) reports, also when
\* get_user_balances is served from the cache.
C27_ListAgreesWithDetail ==
    \A u \in Users :
        \A x \in Users \ {u} :
            SignedInList(get_user_balances(u, TRUE), x)
                = SignedInDetail(get_balance_with_user(u, x))

\* the sum of the overall balances of the given users
RECURSIVE OverallBalanceSum(_)
OverallBalanceSum(user_ids) ==
    IF user_ids = {} THEN 0
    ELSE LET u == CHOOSE x \in user_ids : TRUE
         IN  get_balance_summary(u, FALSE).overall_balance
                + OverallBalanceSum(user_ids \ {u})

Overpayers(expense) ==
    {u \in ParticipantIds(expense) :
        Contribution(ParticipantOf(expense, u)) > 0}

Underpayers(expense) ==
    {u \in ParticipantIds(expense) :
        Contribution(ParticipantOf(expense, u)) < 0}

\* what the expense attributes from one underpayer to the given overpayers
RECURSIVE AttributedSum(_, _, _)
AttributedSum(expense, overpayers, underpayer) ==
    IF overpayers = {} THEN Fraction(0, 1)
    ELSE LET a == CHOOSE x \in overpayers : TRUE
         IN  FractionAdd(PairwiseTerm(expense, a, underpayer),
                         AttributedSum(expense, overpayers \ {a}, underpayer))

\* C30: within one expense accepted by create_expense, the amount
\* _calculate_pairwise_balance attributes from an underpaying participant B
\* to an overpaying participant A exceeds neither B's underpayment nor A's
\* overpayment, and the amounts attributed from B to all overpayers add up to
\* B's underpayment.
C30_AttributionIsExact ==
    \A e \in DOMAIN expenses :
        \A b \in Underpayers(expenses[e]) :
            LET underpayment ==
                    Abs(Contribution(ParticipantOf(expenses[e], b)))
                all == AttributedSum(expenses[e], Overpayers(expenses[e]), b)
            IN  /\ \A a \in Overpayers(expenses[e]) :
                      LET term == PairwiseTerm(expenses[e], a, b)
                          overpayment ==
                              Contribution(ParticipantOf(expenses[e], a))
                      IN  /\ term.num <= underpayment * term.den
                          /\ term.num <= overpayment * term.den
                /\ all.num = underpayment * all.den

----------------------------------------------------------------------------
(* Claims about the split strategies, checked under SplitSpec *)

\* C4: for every total T > 0 and every list of N >= 1 participants the
\* amounts returned by EqualSplitStrategy.calculate_splits sum to exactly T,
\* and the result has exactly N entries whose user ids are in input order.
C4_EqualSplitSumsToTotal ==
    (Called("EQUAL") /\ N >= 1) =>
        /\ raised = "none"
        /\ sum_decimals(ReturnedOwed) = total_amount
        /\ Len(splits) = N
        /\ \A i \in 1..N : splits[i].user_id = participant_data[i].user_id

\* 100.00 split equally among three, in descending id order: the remainder
\* has gone to the last of them
C4_Witness ==
    /\ Called("EQUAL") /\ N = 3 /\ total_amount = 100000
    /\ participant_data[1].user_id = 3
    /\ ReturnedOwed = <<33330, 33330, 33340>>

\* C5: for every total T > 0 and every participant list whose percentages
\* each lie in [0,100] and sum to within 0.01 of 100, the amounts returned by
\* PercentageSplitStrategy.calculate_splits sum to exactly T.
C5_PercentageSplitSumsToTotal ==
    (/\ Called("PERCENTAGE") /\ N >= 1
     /\ AllPercentagesSupplied
     /\ \A i \in 1..N : /\ participant_data[i].percentage.v >= 0
                        /\ participant_data[i].percentage.v <= Hundred
     /\ Abs(SuppliedPercentageSum - Hundred) <= PercentageTolerance)
    => (raised = "none" /\ sum_decimals(ReturnedOwed) = total_amount)

\* 33.33 % three times (sum 99.99) of 100.00: 33.33 each and the missing
\* 0.01 added to the last
C5_Witness ==
    /\ Called("PERCENTAGE") /\ N = 3 /\ total_amount = 100000
    /\ \A i \in 1..N : participant_data[i].percentage = Some(6666)
    /\ ReturnedOwed = <<33330, 33330, 33340>>

C7_ReturnedAmountsHaveTwoDigits ==
    (raised = "none") =>
        \A i \in 1..Len(splits) : splits[i].amount_owed % quantize_value = 0

\* C8: PercentageSplitStrategy.calculate_splits on a non-empty list of
\* supplied percentages raises ValidationError, returning no splits, when a
\* percentage is < 0 or > 100 or the sum differs from 100 by more than 0.01,
\* and returns splits for every other such list.
C8_PercentageValidation ==
    (Called("PERCENTAGE") /\ N >= 1 /\ AllPercentagesSupplied)
    => IF \/ \E i \in 1..N : \/ participant_data[i].percentage.v < 0
                             \/ participant_data[i].percentage.v > Hundred
          \/ Abs(SuppliedPercentageSum - Hundred) > PercentageTolerance
       THEN raised = "ValidationError" /\ splits = <<>>
       ELSE raised = "none" /\ Len(splits) = N

\* a single participant with 100.01 %: the sum is within the tolerance, the
\* range check rejects it
C8_Witness ==
    /\ Called("PERCENTAGE") /\ N = 1
    /\ participant_data[1].percentage = Some(20002)
    /\ raised = "ValidationError"

\* C9: PercentageSplitStrategy.calculate_splits raises ValidationError for
\* every non-empty participant list in which some participant's percentage
\* is None, whatever the other percentages are.
C9_NonePercentageIsValidationError ==
    (/\ Called("PERCENTAGE") /\ N >= 1
     /\ \E i \in 1..N : participant_data[i].percentage = None)
    => raised = "ValidationError"

\* C10: ManualSplitStrategy.calculate_splits raises ValidationError whenever
\* some amount_owed is negative, and whenever some amount_owed is None and
\* the amounts, with None counted as 0, are not within 0.01 of the total.
C10_ManualNegativeOrNone ==
    (Called("MANUAL") /\ N >= 1)
    => /\ (\E i \in 1..N : /\ IsValue(participant_data[i].amount_owed)
                           /\ participant_data[i].amount_owed.v < 0)
            => raised = "ValidationError"
       /\ (/\ \E i \in 1..N : participant_data[i].amount_owed = None
           /\ Abs(total_amount - SuppliedOwedSum) > AmountTolerance)
            => raised = "ValidationError"

\* C26: EqualSplitStrategy.calculate_splits gives every participant except
\* the last in input order round_half_up(T / N) to two digits and the last T
\* minus the sum of the others; 100.00 among three is [33.33, 33.33, 33.34];
\* for no participant the result is the empty list and nothing is raised.
C26_EqualSplitShares ==
    Called("EQUAL") =>
        /\ raised = "none"
        /\ Len(splits) = N
        /\ N >= 1 =>
              LET half_up ==
                      quantize_value *
                          ((2 * total_amount + quantize_value * N)
                              \div (2 * quantize_value * N))
              IN  /\ \A i \in 1..(N - 1) : splits[i].amount_owed = half_up
                  /\ splits[N].amount_owed =
                        total_amount - (N - 1) * half_up
        /\ (N = 3 /\ total_amount = 100000) =>
              ReturnedOwed = <<33330, 33330, 33340>>

\* 100.00 split equally among three in ascending id order
C26_Witness ==
    /\ Called("EQUAL") /\ N = 3 /\ total_amount = 100000
    /\ participant_data[1].user_id = 1
    /\ splits[1].amount_owed = 33330
    /\ splits[3].amount_owed = 33340

\* C28: every amount_owed that EqualSplitStrategy.calculate_splits and
\* PercentageSplitStrategy.calculate_splits return is >= 0, the amount of the
\* last participant after the rounding remainder has been added included,
\* for every total T > 0 with two fractional digits.
C28_ReturnedAmountsNonNegative ==
    (/\ Called("EQUAL") \/ Called("PERCENTAGE")
     /\ raised = "none"
     /\ total_amount > 0
     /\ total_amount % quantize_value = 0) =>
        \A i \in 1..Len(splits) : splits[i].amount_owed >= 0

====
